---- MODULE Spec2Model ----
(***************************************************************************)
(* Savings Goal Ledger of stellarspend-api: SavingsService over the        *)
(* in-memory MockSavingsGoalRepository, with JavaScript number semantics   *)
(* (IEEE-754 binary64) for every money amount and progress value.          *)
(***************************************************************************)
EXTENDS Integers, Sequences, FiniteSets, TLC

(***************************************************************************)
(* Natural numbers of arbitrary size: little-endian sequences of limbs,    *)
(* no leading zero limb (so equal numbers are equal sequences).  They      *)
(* carry the 53-bit significands of JavaScript numbers.                    *)
(***************************************************************************)
LimbBits == 20
Base == 2 ^ LimbBits

Pow2(n) == 2 ^ n

RECURSIVE IntBitLen(_)
IntBitLen(n) == IF n = 0 THEN 0 ELSE 1 + IntBitLen(n \div 2)

Limb(a, i) == IF i <= Len(a) THEN a[i] ELSE 0

RECURSIVE BStrip(_)
BStrip(a) ==
  IF a = <<>> THEN <<>>
  ELSE IF a[Len(a)] = 0 THEN BStrip(SubSeq(a, 1, Len(a) - 1))
  ELSE a

\* 0 <= n < 2^31
BFromInt(n) == BStrip(<<n % Base, n \div Base>>)

RECURSIVE BAddFrom(_, _, _, _)
BAddFrom(a, b, i, c) ==
  IF i > Len(a) /\ i > Len(b)
  THEN (IF c = 0 THEN <<>> ELSE <<c>>)
  ELSE LET s == Limb(a, i) + Limb(b, i) + c
       IN  <<s % Base>> \o BAddFrom(a, b, i + 1, s \div Base)

BAdd(a, b) == BAddFrom(a, b, 1, 0)

\* a - b for a >= b
RECURSIVE BSubFrom(_, _, _, _)
BSubFrom(a, b, i, c) ==
  IF i > Len(a) THEN <<>>
  ELSE LET s == a[i] - Limb(b, i) - c
       IN  IF s < 0 THEN <<s + Base>> \o BSubFrom(a, b, i + 1, 1)
           ELSE <<s>> \o BSubFrom(a, b, i + 1, 0)

BSub(a, b) == BStrip(BSubFrom(a, b, 1, 0))

\* -1, 0, 1 as a < b, a = b, a > b
RECURSIVE BCmpFrom(_, _, _)
BCmpFrom(a, b, i) ==
  IF i = 0 THEN 0
  ELSE IF a[i] < b[i] THEN -1
  ELSE IF a[i] > b[i] THEN 1
  ELSE BCmpFrom(a, b, i - 1)

BCmp(a, b) ==
  IF Len(a) < Len(b) THEN -1
  ELSE IF Len(a) > Len(b) THEN 1
  ELSE BCmpFrom(a, b, Len(a))

\* a * k for a small k (k * Base fits a machine integer)
RECURSIVE BMulSmallFrom(_, _, _, _)
BMulSmallFrom(a, k, i, c) ==
  IF i > Len(a) THEN (IF c = 0 THEN <<>> ELSE <<c>>)
  ELSE LET s == a[i] * k + c
       IN  <<s % Base>> \o BMulSmallFrom(a, k, i + 1, s \div Base)

BMulSmall(a, k) == BStrip(BMulSmallFrom(a, k, 1, 0))

Zeros(n) == [i \in 1..n |-> 0]

\* a * 2^n
BShl(a, n) ==
  IF a = <<>> THEN <<>>
  ELSE LET s  == n % LimbBits
           lo == Pow2(LimbBits - s)
           sh == [i \in 1..(Len(a) + 1) |->
                    (Limb(a, i) % lo) * Pow2(s)
                    + (IF i > 1 THEN a[i - 1] \div lo ELSE 0)]
       IN  BStrip(Zeros(n \div LimbBits) \o sh)

\* floor(a / 2^n)
BShr(a, n) ==
  LET w  == n \div LimbBits
      s  == n % LimbBits
      hi == Pow2(s)
  IN  IF w >= Len(a) THEN <<>>
      ELSE BStrip([i \in 1..(Len(a) - w) |->
                     (a[i + w] \div hi) + (Limb(a, i + w + 1) % hi) * Pow2(LimbBits - s)])

BBitLen(a) == IF a = <<>> THEN 0 ELSE (Len(a) - 1) * LimbBits + IntBitLen(a[Len(a)])

\* bit i of a (bit 0 is the lowest)
BBit(a, i) == (Limb(a, (i \div LimbBits) + 1) \div Pow2(i % LimbBits)) % 2

\* a mod 2^n # 0
BLowNonzero(a, n) ==
  \/ \E i \in 1..Len(a) : i <= n \div LimbBits /\ a[i] # 0
  \/ Limb(a, (n \div LimbBits) + 1) % Pow2(n % LimbBits) # 0

\* a as an integer, for a < 2^31
BToInt(a) == Limb(a, 1) + Limb(a, 2) * Base

(***************************************************************************)
(* Long division of significands, ChunkBits quotient bits a step.  b has   *)
(* exactly 53 bits and p.r < b.  The quotient digit d of p.r * 2^ChunkBits *)
(* by b is estimated from the leading bits of both (the estimate d0 is d,  *)
(* d + 1 or d + 2) and then corrected.                                     *)
(***************************************************************************)
SigBits   == 53
ChunkBits == LimbBits \div 2

DivChunk(p, b) ==
  LET r  == BShl(p.r, ChunkBits)
      rt == BToInt(BShr(r, SigBits - LimbBits))
      bt == BToInt(BShr(b, SigBits - LimbBits))
      d0 == (rt \div bt) + 1
      d  == IF BCmp(BMulSmall(b, d0), r) <= 0 THEN d0
            ELSE IF BCmp(BMulSmall(b, d0 - 1), r) <= 0 THEN d0 - 1
            ELSE d0 - 2
  IN  [q |-> BAdd(BShl(p.q, ChunkBits), BFromInt(d)), r |-> BSub(r, BMulSmall(b, d))]

RECURSIVE DivChunks(_, _, _)
DivChunks(p, b, n) == IF n = 0 THEN p ELSE DivChunk(DivChunks(p, b, n - 1), b)

\* [q, r] with a * 2^(n * ChunkBits) = q * b + r, for a and b of exactly 53 bits
BDivSig(a, b, n) ==
  DivChunks(IF BCmp(a, b) >= 0 THEN [q |-> <<1>>, r |-> BSub(a, b)]
            ELSE [q |-> <<>>, r |-> a], b, n)

\* [q, r] with a = q * k + r, for a small k (k * Base fits a machine integer):
\* short division, from limb i down with the remainder c carried in
RECURSIVE BDivSmallFrom(_, _, _, _)
BDivSmallFrom(a, k, i, c) ==
  IF i = 0 THEN [q |-> <<>>, r |-> c]
  ELSE LET t    == c * Base + a[i]
           rest == BDivSmallFrom(a, k, i - 1, t % k)
       IN  [q |-> Append(rest.q, t \div k), r |-> rest.r]

BDivSmall(a, k) ==
  LET d == BDivSmallFrom(a, k, Len(a), 0) IN [q |-> BStrip(d.q), r |-> d.r]

(***************************************************************************)
(* JavaScript numbers that are finite and non-negative: zero, or           *)
(* m * 2^e with a significand m of exactly 53 bits (a normal binary64).    *)
(* The service rejects negative, NaN and infinite amounts before any       *)
(* arithmetic, and the amounts of the model stay far from the subnormal    *)
(* and overflow ranges.  Every operation rounds to nearest, ties to even.  *)
(***************************************************************************)

Zero == [m |-> <<>>, e |-> 0]

\* The number nearest to (n + s) * 2^e, where 0 <= s < 1 and sticky says s > 0
RoundPack(n, e, sticky) ==
  LET L == BBitLen(n)
  IN  IF n = <<>> THEN Zero
      ELSE IF L <= SigBits THEN [m |-> BShl(n, SigBits - L), e |-> e - (SigBits - L)]
      ELSE LET d    == L - SigBits
               q    == BShr(n, d)
               half == BBit(n, d - 1) = 1
               rest == BLowNonzero(n, d - 1) \/ sticky
               up   == half /\ (rest \/ BBit(q, 0) = 1)
               q2   == IF up THEN BAdd(q, <<1>>) ELSE q
           IN  IF BBitLen(q2) > SigBits
               THEN [m |-> BShr(q2, 1), e |-> e + d + 1]
               ELSE [m |-> q2, e |-> e + d]

\* An integer 0 <= n < 2^31 as a number (exact)
IntToDouble(n) == RoundPack(BFromInt(n), 0, FALSE)

\* x + y
FAdd(x, y) ==
  IF x = Zero THEN y
  ELSE IF y = Zero THEN x
  ELSE LET e0 == IF x.e < y.e THEN x.e ELSE y.e
       IN  RoundPack(BAdd(BShl(x.m, x.e - e0), BShl(y.m, y.e - e0)), e0, FALSE)

\* x < y
FLess(x, y) ==
  IF y = Zero THEN FALSE
  ELSE IF x = Zero THEN TRUE
  ELSE x.e < y.e \/ (x.e = y.e /\ BCmp(x.m, y.m) < 0)

\* x > y with the operands the wrong way round
FGreaterSwapped(x, y) == FLess(x, y)

\* x > y
FGreater(x, y) == FLess(y, x)

\* x <= y
FLessEq(x, y) == ~FLess(y, x)

\* x / y for y # 0
FDiv(x, y) ==
  IF x = Zero THEN Zero
  ELSE LET n  == 6
           qr == BDivSig(x.m, y.m, n)
       IN  RoundPack(qr.q, x.e - y.e - n * ChunkBits, qr.r # <<>>)

\* x / k for a small integer k > 0
FDivSmall(x, k) ==
  IF x = Zero THEN Zero
  ELSE LET s  == 13
           qr == BDivSmall(BShl(x.m, s), k)
       IN  RoundPack(qr.q, x.e - s, qr.r # 0)

\* x * k for a small integer k > 0
FMulSmall(x, k) ==
  IF x = Zero THEN Zero ELSE RoundPack(BMulSmall(x.m, k), x.e, FALSE)

\* Math.round(x) for x >= 0: floor(x + 1/2), computed exactly
MathRound(x) ==
  IF x = Zero THEN Zero
  ELSE IF x.e >= 0 THEN x
  ELSE IF -x.e > SigBits + 1 THEN Zero
  ELSE RoundPack(BShr(BAdd(x.m, BShl(<<1>>, -x.e - 1)), -x.e), 0, FALSE)

(***************************************************************************)
(* JavaScript strings.  A TLA+ string stands for the JavaScript string     *)
(* with the same text; CharsOf gives its characters, which the validators  *)
(* inspect (length, trim, the UUID pattern).                               *)
(***************************************************************************)
User1 == "123e4567-e89b-12d3-a456-426614174000"
User2 == "123e4567-e89b-12d3-a456-426614174001"
GoalIdA == "3f2b8c1d-5e6f-4a7b-8c9d-0e1f2a3b4c5d"
GoalIdB == "9a8b7c6d-5e4f-4321-a0b1-c2d3e4f5a6b7"
EmptyString == ""
Blank == "  "
InvalidUuid == "invalid-uuid"
ValidName == "Emergency Fund"
ShortName == "A"
UserV4 == "123e4567-e89b-42d3-a456-426614174000"
Category == "groceries"
Monthly == "monthly"
Daily == "daily"
AssetCode == "XLM"
Email == "test@example.com"
BadEmail == "test.example.com"

CharsOf ==
  (User1 :> <<"1", "2", "3", "e", "4", "5", "6", "7", "-", "e", "8", "9", "b", "-", "1", "2", "d", "3", "-", "a", "4", "5", "6", "-", "4", "2", "6", "6", "1", "4", "1", "7", "4", "0", "0", "0">>)
  @@ (User2 :> <<"1", "2", "3", "e", "4", "5", "6", "7", "-", "e", "8", "9", "b", "-", "1", "2", "d", "3", "-", "a", "4", "5", "6", "-", "4", "2", "6", "6", "1", "4", "1", "7", "4", "0", "0", "1">>)
  @@ (GoalIdA :> <<"3", "f", "2", "b", "8", "c", "1", "d", "-", "5", "e", "6", "f", "-", "4", "a", "7", "b", "-", "8", "c", "9", "d", "-", "0", "e", "1", "f", "2", "a", "3", "b", "4", "c", "5", "d">>)
  @@ (GoalIdB :> <<"9", "a", "8", "b", "7", "c", "6", "d", "-", "5", "e", "4", "f", "-", "4", "3", "2", "1", "-", "a", "0", "b", "1", "-", "c", "2", "d", "3", "e", "4", "f", "5", "a", "6", "b", "7">>)
  @@ (EmptyString :> <<>>)
  @@ (Blank :> <<" ", " ">>)
  @@ (InvalidUuid :> <<"i", "n", "v", "a", "l", "i", "d", "-", "u", "u", "i", "d">>)
  @@ (ValidName :> <<"E", "m", "e", "r", "g", "e", "n", "c", "y", " ", "F", "u", "n", "d">>)
  @@ (ShortName :> <<"A">>)
  @@ (UserV4 :> <<"1", "2", "3", "e", "4", "5", "6", "7", "-", "e", "8", "9", "b", "-", "4", "2", "d", "3", "-", "a", "4", "5", "6", "-", "4", "2", "6", "6", "1", "4", "1", "7", "4", "0", "0", "0">>)
  @@ (Category :> <<"g", "r", "o", "c", "e", "r", "i", "e", "s">>)
  @@ (Monthly :> <<"m", "o", "n", "t", "h", "l", "y">>)
  @@ (Daily :> <<"d", "a", "i", "l", "y">>)
  @@ (AssetCode :> <<"X", "L", "M">>)
  @@ (Email :> <<"t", "e", "s", "t", "@", "e", "x", "a", "m", "p", "l", "e", ".", "c", "o", "m">>)
  @@ (BadEmail :> <<"t", "e", "s", "t", ".", "e", "x", "a", "m", "p", "l", "e", ".", "c", "o", "m">>)

Whitespace == {" "}

HexDigits ==
  {"0", "1", "2", "3", "4", "5", "6", "7", "8", "9",
   "a", "b", "c", "d", "e", "f", "A", "B", "C", "D", "E", "F"}

RECURSIVE TrimLeft(_)
TrimLeft(cs) ==
  IF cs # <<>> /\ cs[1] \in Whitespace THEN TrimLeft(Tail(cs)) ELSE cs

RECURSIVE TrimRight(_)
TrimRight(cs) ==
  IF cs # <<>> /\ cs[Len(cs)] \in Whitespace
  THEN TrimRight(SubSeq(cs, 1, Len(cs) - 1))
  ELSE cs

\* String.prototype.trim, on the characters of a string
Trim(cs) == TrimRight(TrimLeft(cs))

\* /^[0-9a-f]{8}-[0-9a-f]{4}-[0-9a-f]{4}-[0-9a-f]{4}-[0-9a-f]{12}$/i
UuidRegexTest(cs) ==
  /\ Len(cs) = 36
  /\ \A i \in 1..36 :
       IF i \in {9, 14, 19, 24} THEN cs[i] = "-" ELSE cs[i] \in HexDigits

\* /^[0-9a-f]{8}-[0-9a-f]{4}-4[0-9a-f]{3}-[89ab][0-9a-f]{3}-[0-9a-f]{12}$/i
UuidV4RegexTest(cs) ==
  /\ UuidRegexTest(cs)
  /\ cs[15] = "4"
  /\ cs[20] \in {"8", "9", "a", "b", "A", "B"}

Letters ==
  {"a", "b", "c", "d", "e", "f", "g", "h", "i", "j", "k", "l", "m", "n", "o", "p",
   "q", "r", "s", "t", "u", "v", "w", "x", "y", "z",
   "A", "B", "C", "D", "E", "F", "G", "H", "I", "J", "K", "L", "M", "N", "O", "P",
   "Q", "R", "S", "T", "U", "V", "W", "X", "Y", "Z"}

Digits == {"0", "1", "2", "3", "4", "5", "6", "7", "8", "9"}

\* /^[A-Z0-9]+$/i
AssetRegexTest(cs) == cs # <<>> /\ \A i \in 1..Len(cs) : cs[i] \in Letters \cup Digits

\* /^[^\s@]+@[^\s@]+\.[^\s@]+$/
EmailRegexTest(cs) ==
  /\ \A i \in 1..Len(cs) : cs[i] \notin Whitespace
  /\ Cardinality({i \in 1..Len(cs) : cs[i] = "@"}) = 1
  /\ \E at \in 2..Len(cs) :
       /\ cs[at] = "@"
       /\ \E dot \in (at + 2)..(Len(cs) - 1) : cs[dot] = "."

(***************************************************************************)
(* JavaScript values passed where the service expects a number: a finite   *)
(* decimal literal of at most three fractional digits (sign and            *)
(* thousandths), the literal 1e-7, NaN, an infinity, or a value that is    *)
(* not a number.                                                           *)
(***************************************************************************)
Num(mills)    == [type |-> "number", cls |-> "finite", neg |-> FALSE, mills |-> mills]
NegNum(mills) == [type |-> "number", cls |-> "finite", neg |-> TRUE, mills |-> mills]
NaN           == [type |-> "number", cls |-> "NaN", neg |-> FALSE, mills |-> 0]
Infinity      == [type |-> "number", cls |-> "Infinity", neg |-> FALSE, mills |-> 0]
NotANumber    == [type |-> "string", cls |-> "NaN", neg |-> FALSE, mills |-> 0]
\* 1e-7: positive, below a thousandth, printed by toString as "1e-7"
TinyNum       == [type |-> "number", cls |-> "tiny", neg |-> FALSE, mills |-> 0]

\* v < 0, where v <= 0 is meant
LessThanZero(v) ==
  \/ v.cls = "finite" /\ v.neg
  \/ v.cls = "Infinity" /\ v.neg

\* v <= 0
LessEqZero(v) ==
  \/ v.cls = "finite" /\ (v.neg \/ v.mills = 0)
  \/ v.cls = "Infinity" /\ v.neg

\* isFinite(v)
IsFinite(v) == v.cls \in {"finite", "tiny"}

\* (v.toString().split('.')[1] || '').length, for a finite literal: the
\* shortest text that reads back as the number is the literal itself, and
\* below 1e-6 toString writes it with an exponent, "1e-7", which has no '.'
DecimalPlaces(v) ==
  IF v.cls = "tiny" THEN 0
  ELSE IF v.mills % 1000 = 0 THEN 0
  ELSE IF v.mills % 100 = 0 THEN 1
  ELSE IF v.mills % 10 = 0 THEN 2
  ELSE 3

\* The binary64 number a positive finite literal denotes: the nearest to it
NumberOf(v) ==
  IF v.cls = "tiny" THEN FDiv(IntToDouble(1), IntToDouble(10000000))
  ELSE FDivSmall(IntToDouble(v.mills), 1000)

(***************************************************************************)
(* Validation rules of SavingsService.  Each gives the message of the      *)
(* ValidationError it throws, or Ok.  Identifiers and names are            *)
(* JavaScript strings here, so typeof is 'string' throughout.              *)
(***************************************************************************)
Ok == "ok"

validateId(id) ==
  IF id = EmptyString THEN "Goal ID is required and must be a string"
  ELSE IF Len(Trim(CharsOf[id])) = 0 THEN "Goal ID cannot be empty"
  ELSE IF ~UuidRegexTest(CharsOf[id]) THEN "Goal ID must be a valid UUID"
  ELSE Ok

validateUserId(userId) ==
  IF userId = EmptyString THEN "User ID is required and must be a string"
  ELSE IF Len(Trim(CharsOf[userId])) = 0 THEN "User ID cannot be empty"
  ELSE IF ~UuidRegexTest(CharsOf[userId]) THEN "User ID must be a valid UUID"
  ELSE Ok

validateName(name) ==
  IF name = EmptyString THEN "Name is required and must be a string"
  ELSE IF Len(Trim(CharsOf[name])) = 0 THEN "Name cannot be empty"
  ELSE IF Len(Trim(CharsOf[name])) < 2 THEN "Name must be at least 2 characters long"
  ELSE Ok

\* The validation without the test  targetAmount <= 0
validateTargetAmountUnsigned(targetAmount) ==
  IF targetAmount.type # "number" THEN "Target amount must be a number"
  ELSE IF ~IsFinite(targetAmount) THEN "Target amount must be a finite number"
  ELSE IF DecimalPlaces(targetAmount) > 2
       THEN "Target amount cannot have more than 2 decimal places"
  ELSE Ok

validateTargetAmount(targetAmount) ==
  IF targetAmount.type # "number" THEN "Target amount must be a number"
  ELSE IF LessEqZero(targetAmount) THEN "Target amount must be greater than 0"
  ELSE IF ~IsFinite(targetAmount) THEN "Target amount must be a finite number"
  ELSE IF DecimalPlaces(targetAmount) > 2
       THEN "Target amount cannot have more than 2 decimal places"
  ELSE Ok

validateContributionAmount(amount) ==
  IF amount.type # "number" THEN "Contribution amount must be a number"
  ELSE IF LessEqZero(amount) THEN "Contribution amount must be greater than 0"
  ELSE IF ~IsFinite(amount) THEN "Contribution amount must be a finite number"
  ELSE IF DecimalPlaces(amount) > 2
       THEN "Contribution amount cannot have more than 2 decimal places"
  ELSE Ok

\* The first failure of a list of validations run in order
RECURSIVE FirstError(_)
FirstError(checks) ==
  IF checks = <<>> THEN Ok
  ELSE IF Head(checks) # Ok THEN Head(checks)
  ELSE FirstError(Tail(checks))

(***************************************************************************)
(* Progress Calculator                                                     *)
(***************************************************************************)
\* The calculation without the division that follows Math.round
calculateProgressUnscaled(currentAmount, targetAmount) ==
  IF targetAmount = Zero THEN Zero
  ELSE LET progress == FMulSmall(FDiv(currentAmount, targetAmount), 100)
       IN  MathRound(FMulSmall(progress, 100))

calculateProgress(currentAmount, targetAmount) ==
  IF targetAmount = Zero THEN Zero
  ELSE LET progress == FMulSmall(FDiv(currentAmount, targetAmount), 100)
       IN  FDivSmall(MathRound(FMulSmall(progress, 100)), 100)

(***************************************************************************)
(* MockSavingsGoalRepository: a Map from id to goal, which keeps the       *)
(* order of insertion.  The store is the sequence of its goals.  The       *)
(* createdAt and updatedAt timestamps are left out.                        *)
(***************************************************************************)
Null == [null |-> TRUE]

StoredIds(store) == {store[i].id : i \in 1..Len(store)}

IndexOf(store, id) == CHOOSE i \in 1..Len(store) : store[i].id = id

\* A lookup that falls back to the first goal of the Map for an unknown id
findOneOrFirst(store, id) ==
  IF id \in StoredIds(store) THEN store[IndexOf(store, id)]
  ELSE IF store = <<>> THEN Null
  ELSE store[1]

\* this.goals.get(id) || null
findOne(store, id) ==
  IF id \in StoredIds(store) THEN store[IndexOf(store, id)] ELSE Null

\* A listing without the filter on userId
findByUserIdUnfiltered(store, userId) == store

\* Array.from(this.goals.values()).filter(goal => goal.userId === userId)
findByUserId(store, userId) == SelectSeq(store, LAMBDA g : g.userId = userId)

\* The goal create() stores under the generated id
createRecord(id, goal) ==
  [id            |-> id,
   userId        |-> goal.userId,
   name          |-> goal.name,
   targetAmount  |-> goal.targetAmount,
   currentAmount |-> IF "currentAmount" \in DOMAIN goal THEN goal.currentAmount ELSE Zero,
   progress      |-> IF "progress" \in DOMAIN goal THEN goal.progress ELSE Zero,
   isCompleted   |-> IF "isCompleted" \in DOMAIN goal THEN goal.isCompleted ELSE FALSE]

\* { ...existingGoal, ...goal, id: existingGoal.id }
mergeRecord(existingGoal, goal) ==
  [f \in DOMAIN existingGoal |->
     IF f = "id" THEN existingGoal.id
     ELSE IF f \in DOMAIN goal THEN goal[f]
     ELSE existingGoal[f]]

\* A set that always lands on the first entry of the Map
setRecordFirst(store, id, updatedGoal) == [store EXCEPT ![1] = updatedGoal]

\* this.goals.set(id, updatedGoal) for a stored id
setRecord(store, id, updatedGoal) ==
  [store EXCEPT ![IndexOf(store, id)] = updatedGoal]

\* An update that inserts the goal when the Map holds none under the id
updateOrInsert(store, id, goal) ==
  IF id \notin StoredIds(store)
  THEN [threw |-> FALSE, value |-> goal, store |-> Append(store, goal)]
  ELSE LET updatedGoal == mergeRecord(findOne(store, id), goal)
       IN  [threw |-> FALSE, value |-> updatedGoal,
            store |-> setRecord(store, id, updatedGoal)]

\* An update that stores the merged goal and returns the one it replaced
updateReturningOld(store, id, goal) ==
  IF id \notin StoredIds(store)
  THEN [threw |-> TRUE, error |-> [kind |-> "Error", message |-> "Goal with ID not found"],
        store |-> store]
  ELSE LET updatedGoal == mergeRecord(findOne(store, id), goal)
       IN  [threw |-> FALSE, value |-> findOne(store, id),
            store |-> setRecord(store, id, updatedGoal)]

\* update(id, goal): throws Error(`Goal with ID ${id} not found`) for an id the
\* Map does not hold, else merges, stores and returns the merged goal
update(store, id, goal) ==
  IF id \notin StoredIds(store)
  THEN [threw |-> TRUE, error |-> [kind |-> "Error", message |-> "Goal with ID not found"],
        store |-> store]
  ELSE LET updatedGoal == mergeRecord(findOne(store, id), goal)
       IN  [threw |-> FALSE, value |-> updatedGoal,
            store |-> setRecord(store, id, updatedGoal)]

\* this.goals.delete(id)
delete(store, id) == SelectSeq(store, LAMBDA g : g.id # id)

(***************************************************************************)
(* Outcomes of a call                                                      *)
(***************************************************************************)
Pending == [kind |-> "pending"]

Returned(value) == [kind |-> "ok", value |-> value]

Thrown(kind, message) == [kind |-> kind, message |-> message]

\* What a repository hands back for a call it rejects: a promise rejected
\* with error
Rejected(error) == [rejected |-> error]

IsRejected(read) == "rejected" \in DOMAIN read

\* An await that turns every rejection into "no such goal"
rethrownAsNotFound(read) == [kind |-> "NotFoundError", message |-> "Goal not found"]

\* await on a rejected promise throws the rejection's error; the service
\* has no try/catch around it
rethrown(read) == read.rejected

\* The update without the recomputed progress
contributionUpdateNoProgress(goal, newCurrentAmount) ==
  [currentAmount |-> newCurrentAmount,
   isCompleted   |-> newCurrentAmount = goal.targetAmount]

\* The update without the completion flag
contributionUpdateNoCompletion(goal, newCurrentAmount) ==
  [currentAmount |-> newCurrentAmount,
   progress      |-> calculateProgress(newCurrentAmount, goal.targetAmount)]

\* The update with the target moved to the new amount
contributionUpdateRetarget(goal, newCurrentAmount) ==
  [targetAmount  |-> newCurrentAmount,
   currentAmount |-> newCurrentAmount,
   progress      |-> calculateProgress(newCurrentAmount, goal.targetAmount),
   isCompleted   |-> newCurrentAmount = goal.targetAmount]

\* The fields addContribution hands to repository.update
contributionUpdate(goal, newCurrentAmount) ==
  [currentAmount |-> newCurrentAmount,
   progress      |-> calculateProgress(newCurrentAmount, goal.targetAmount),
   isCompleted   |-> newCurrentAmount = goal.targetAmount]

(***************************************************************************)
(* Bounds and inputs                                                       *)
(***************************************************************************)
MaxGoals == 2
MaxCalls == 3

\* The service calls of a run, numbered in the order they are made
Calls == 1..MaxCalls

\* The ids generateId returns
GoalIdPool == {GoalIdA, GoalIdB}

\* A generateId that may repeat an id the Map holds
generateIdAny(store) == GoalIdPool

\* generateId(): a random version-4 UUID, taken never to repeat an id the Map
\* holds (create does not look for one)
generateId(store) == GoalIdPool \ StoredIds(store)

UserIds == {User1, User2}

\* createGoal(userId, name, targetAmount) calls
CreateInputs ==
  {<<u, ValidName, Num(300)>> : u \in UserIds}
  \cup {<<EmptyString, ValidName, Num(300)>>, <<User1, ShortName, Num(300)>>,
        <<User1, ValidName, Num(0)>>, <<User1, ValidName, Num(1)>>,
        <<User1, ValidName, NegNum(100)>>}

\* addContribution(userId, goalId, amount) calls
ContributionInputs ==
  {<<u, g, a>> : u \in UserIds, g \in GoalIdPool, a \in {Num(100), Num(200), Num(300)}}
  \cup {<<InvalidUuid, GoalIdA, Num(100)>>, <<User1, InvalidUuid, Num(100)>>,
        <<User1, GoalIdA, Num(0)>>, <<User1, GoalIdA, NegNum(100)>>,
        <<User1, GoalIdA, Num(301)>>, <<User1, GoalIdA, TinyNum>>}

\* validateGoalOwnership(userId, goalId) calls
OwnershipInputs ==
  {<<u, g>> : u \in UserIds, g \in GoalIdPool}
  \cup {<<Blank, GoalIdA>>, <<User1, EmptyString>>}

\* findGoalsByUser(userId) calls
FindInputs == UserIds \cup {InvalidUuid}

\* The services with the create/update/delete pattern
Services == {"budgets", "transactions", "users"}

MaxRequests == 3

\* The calls made on those services, numbered in the order they are made
Requests == 1..MaxRequests

VARIABLES
  goals,     \* the repository's Map, in insertion order
  call,      \* per service call: where it stands, what it read and how it ended
  repo,      \* per service of Services: its repository's records
  request    \* per call on a service of Services: the same as call

vars == <<goals, call, repo, request>>

crudVars == <<repo, request>>

savingsVars == <<goals, call>>

\* A call on a service of Services not made yet
IdleRequest == [svc |-> "none", op |-> "none", pc |-> "idle", args |-> <<>>,
                read |-> Null, result |-> Pending,
                finds |-> 0, creates |-> 0, updates |-> 0, deletes |-> 0]

\* A call not made yet
Idle == [op |-> "none", pc |-> "idle", args |-> <<>>, goal |-> Null,
         result |-> Pending, reads |-> 0, writes |-> 0]

\* A call that has ended: it returned or threw
Ended(op, args, goal, result, reads, writes) ==
  [op |-> op, pc |-> "done", args |-> args, goal |-> goal,
   result |-> result, reads |-> reads, writes |-> writes]

\* A call suspended with its Store read not issued yet
AwaitingUnread(op, args, goal) ==
  [op |-> op, pc |-> "await", args |-> args, goal |-> goal,
   result |-> Pending, reads |-> 0, writes |-> 0]

\* A call suspended at  await this.repository.findOne(goalId)
Awaiting(op, args, goal) ==
  [op |-> op, pc |-> "await", args |-> args, goal |-> goal,
   result |-> Pending, reads |-> 1, writes |-> 0]

\* The ids of the goals created so far, deleted ones included
IssuedIds ==
  {call[c].result.value.id :
     c \in {d \in Calls : call[d].op = "createGoal" /\ call[d].result.kind = "ok"}}

\* Call c is the next one to be made
IsNext(c) == call[c].pc = "idle" /\ \A d \in Calls : d < c => call[d].pc # "idle"

Init ==
  /\ goals = <<>>
  /\ call = [c \in Calls |-> Idle]
  /\ repo = [svc \in Services |-> <<>>]
  /\ request = [r \in Requests |-> IdleRequest]

\* createGoal: validation, then repository.create
CreateGoal(c, userId, name, targetAmount) ==
  LET args == [userId |-> userId, name |-> name, targetAmount |-> targetAmount]
      err  == FirstError(<<validateUserId(userId), validateName(name),
                           validateTargetAmount(targetAmount)>>)
  IN  /\ IsNext(c)
      /\ UNCHANGED crudVars
      /\ IF err # Ok
         THEN /\ call' = [call EXCEPT ![c] =
                    Ended("createGoal", args, Null, Thrown("ValidationError", err), 0, 0)]
              /\ UNCHANGED goals
         ELSE /\ Len(goals) < MaxGoals
              /\ \E id \in generateId(goals) :
                   \* nor does a random UUID repeat the id of a deleted goal
                   /\ id \notin IssuedIds \ StoredIds(goals)
                   /\ LET goal == [userId |-> userId, name |-> name,
                                   targetAmount |-> NumberOf(targetAmount),
                                   currentAmount |-> Zero, progress |-> Zero,
                                   isCompleted |-> FALSE]
                          newGoal == createRecord(id, goal)
                      IN  /\ goals' = Append(goals, newGoal)
                          /\ call' = [call EXCEPT ![c] =
                                Ended("createGoal", args, Null, Returned(newGoal), 0, 1)]

\* findGoalsByUser: validation, then repository.findByUserId
FindGoalsByUser(c, userId) ==
  LET args == [userId |-> userId]
      err  == validateUserId(userId)
  IN  /\ IsNext(c)
      /\ UNCHANGED crudVars
      /\ call' = [call EXCEPT ![c] =
            IF err # Ok
            THEN Ended("findGoalsByUser", args, Null, Thrown("ValidationError", err), 0, 0)
            ELSE Ended("findGoalsByUser", args, Null,
                       Returned(findByUserId(goals, userId)), 1, 0)]
      /\ UNCHANGED goals

\* addContribution up to  await this.repository.findOne(goalId)
AddContribution(c, userId, goalId, amount) ==
  LET args == [userId |-> userId, goalId |-> goalId, amount |-> amount]
      err  == FirstError(<<validateUserId(userId), validateId(goalId),
                           validateContributionAmount(amount)>>)
  IN  /\ IsNext(c)
      /\ UNCHANGED crudVars
      /\ call' = [call EXCEPT ![c] =
            IF err # Ok
            THEN Ended("addContribution", args, Null, Thrown("ValidationError", err), 0, 0)
            ELSE Awaiting("addContribution", args, findOne(goals, goalId))]
      /\ UNCHANGED goals

\* An addContribution that never finds the target exceeded
exceedsTargetOff(newCurrentAmount, targetAmount) == FALSE

\* newCurrentAmount > goal.targetAmount
exceedsTarget(newCurrentAmount, targetAmount) == FGreater(newCurrentAmount, targetAmount)

\* An addContribution that takes every caller for the owner
notOwnerOff(goal, userId) == FALSE

\* goal.userId !== userId
notOwner(goal, userId) == goal.userId # userId

\* An addContribution that compares the amounts before it compares the owner
AddContributionResumeExceedFirst(c) ==
  LET args == call[c].args
      goal == call[c].goal
      newCurrentAmount == FAdd(goal.currentAmount, NumberOf(args.amount))
  IN  /\ call[c].pc = "await"
      /\ UNCHANGED crudVars
      /\ call[c].op = "addContribution"
      /\ IF IsRejected(goal)
         THEN /\ call' = [call EXCEPT ![c] =
                    Ended("addContribution", args, goal, rethrown(goal), 1, 0)]
              /\ UNCHANGED goals
         ELSE IF goal = Null
         THEN /\ call' = [call EXCEPT ![c] = Ended("addContribution", args, goal,
                             Thrown("NotFoundError", "Goal not found"), 1, 0)]
              /\ UNCHANGED goals
         ELSE IF exceedsTarget(newCurrentAmount, goal.targetAmount)
         THEN /\ call' = [call EXCEPT ![c] = Ended("addContribution", args, goal,
                             Thrown("ValidationError",
                                    "Contribution would exceed target amount"), 1, 0)]
              /\ UNCHANGED goals
         ELSE IF notOwner(goal, args.userId)
         THEN /\ call' = [call EXCEPT ![c] = Ended("addContribution", args, goal,
                             Thrown("AuthorizationError",
                                    "You do not have permission to access this goal"), 1, 0)]
              /\ UNCHANGED goals
         ELSE LET updatedGoal == mergeRecord(goal, contributionUpdate(goal, newCurrentAmount))
                  outcome == update(goals, args.goalId, updatedGoal)
              IN  /\ goals' = outcome.store
                  /\ call' = [call EXCEPT ![c] = Ended("addContribution", args, goal,
                                 IF outcome.threw THEN outcome.error
                                 ELSE Returned(outcome.value), 1, 1)]

\* addContribution from the result of findOne on: the checks, then repository.update
AddContributionResume(c) ==
  LET args == call[c].args
      goal == call[c].goal
      newCurrentAmount == FAdd(goal.currentAmount, NumberOf(args.amount))
  IN  /\ call[c].pc = "await"
      /\ UNCHANGED crudVars
      /\ call[c].op = "addContribution"
      /\ IF IsRejected(goal)
         THEN /\ call' = [call EXCEPT ![c] =
                    Ended("addContribution", args, goal, rethrown(goal), 1, 0)]
              /\ UNCHANGED goals
         ELSE IF goal = Null
         THEN /\ call' = [call EXCEPT ![c] = Ended("addContribution", args, goal,
                             Thrown("NotFoundError", "Goal not found"), 1, 0)]
              /\ UNCHANGED goals
         ELSE IF notOwner(goal, args.userId)
         THEN /\ call' = [call EXCEPT ![c] = Ended("addContribution", args, goal,
                             Thrown("AuthorizationError",
                                    "You do not have permission to access this goal"), 1, 0)]
              /\ UNCHANGED goals
         ELSE IF exceedsTarget(newCurrentAmount, goal.targetAmount)
         THEN /\ call' = [call EXCEPT ![c] = Ended("addContribution", args, goal,
                             Thrown("ValidationError",
                                    "Contribution would exceed target amount"), 1, 0)]
              /\ UNCHANGED goals
         \* updatedGoal = { ...goal, currentAmount, progress, isCompleted }, then
         \* return this.repository.update(goalId, updatedGoal)
         ELSE LET updatedGoal == mergeRecord(goal, contributionUpdate(goal, newCurrentAmount))
                  outcome == update(goals, args.goalId, updatedGoal)
              IN  /\ goals' = outcome.store
                  /\ call' = [call EXCEPT ![c] = Ended("addContribution", args, goal,
                                 IF outcome.threw THEN outcome.error
                                 ELSE Returned(outcome.value), 1, 1)]

\* validateGoalOwnership up to  await this.repository.findOne(goalId)
ValidateGoalOwnership(c, userId, goalId) ==
  LET args == [userId |-> userId, goalId |-> goalId]
      err  == FirstError(<<validateUserId(userId), validateId(goalId)>>)
  IN  /\ IsNext(c)
      /\ UNCHANGED crudVars
      /\ call' = [call EXCEPT ![c] =
            IF err # Ok
            THEN Ended("validateGoalOwnership", args, Null,
                       Thrown("ValidationError", err), 0, 0)
            ELSE Awaiting("validateGoalOwnership", args, findOne(goals, goalId))]
      /\ UNCHANGED goals

\* A validateGoalOwnership that returns false to a caller who is not the owner
ValidateGoalOwnershipResumeFalse(c) ==
  LET args == call[c].args
      goal == call[c].goal
  IN  /\ call[c].pc = "await"
      /\ UNCHANGED crudVars
      /\ call[c].op = "validateGoalOwnership"
      /\ call' = [call EXCEPT ![c] =
            IF IsRejected(goal)
            THEN Ended("validateGoalOwnership", args, goal, rethrown(goal), 1, 0)
            ELSE IF goal = Null
            THEN Ended("validateGoalOwnership", args, goal,
                       Thrown("NotFoundError", "Goal not found"), 1, 0)
            ELSE Ended("validateGoalOwnership", args, goal,
                       Returned(~notOwner(goal, args.userId)), 1, 0)]
      /\ UNCHANGED goals

\* validateGoalOwnership from the result of findOne on
ValidateGoalOwnershipResume(c) ==
  LET args == call[c].args
      goal == call[c].goal
  IN  /\ call[c].pc = "await"
      /\ UNCHANGED crudVars
      /\ call[c].op = "validateGoalOwnership"
      /\ call' = [call EXCEPT ![c] =
            IF IsRejected(goal)
            THEN Ended("validateGoalOwnership", args, goal, rethrown(goal), 1, 0)
            ELSE IF goal = Null
            THEN Ended("validateGoalOwnership", args, goal,
                       Thrown("NotFoundError", "Goal not found"), 1, 0)
            ELSE IF notOwner(goal, args.userId)
            THEN Ended("validateGoalOwnership", args, goal,
                       Thrown("AuthorizationError",
                              "You do not have permission to access this goal"), 1, 0)
            ELSE Ended("validateGoalOwnership", args, goal, Returned(TRUE), 1, 0)]
      /\ UNCHANGED goals

Next ==
  \E c \in Calls :
    \/ \E in \in CreateInputs : CreateGoal(c, in[1], in[2], in[3])
    \/ \E in \in FindInputs : FindGoalsByUser(c, in)
    \/ \E in \in ContributionInputs : AddContribution(c, in[1], in[2], in[3])
    \/ AddContributionResume(c)
    \/ \E in \in OwnershipInputs : ValidateGoalOwnership(c, in[1], in[2])
    \/ ValidateGoalOwnershipResume(c)

Spec == Init /\ [][Next]_vars

(***************************************************************************)
(* The service on a Store that can fail and whose owner can delete goals.  *)
(* The service is written against the SavingsGoalRepository interface; any *)
(* of its methods may reject, as the tests make them with                  *)
(* mockRejectedValue(new Error(...)).                                      *)
(***************************************************************************)
\* The error a failing Store read rejects with
ReadError == Thrown("Error", "Database connection failed")

\* The error a failing Store write rejects with
WriteError == Thrown("Error", "Deadlock detected")

\* createGoal when repository.create rejects
CreateGoalRejected(c, userId, name, targetAmount) ==
  LET args == [userId |-> userId, name |-> name, targetAmount |-> targetAmount]
      err  == FirstError(<<validateUserId(userId), validateName(name),
                           validateTargetAmount(targetAmount)>>)
  IN  /\ IsNext(c)
      /\ UNCHANGED crudVars
      /\ err = Ok
      /\ call' = [call EXCEPT ![c] =
            Ended("createGoal", args, Null, rethrown(Rejected(WriteError)), 0, 1)]
      /\ UNCHANGED goals

\* findGoalsByUser when repository.findByUserId rejects
FindGoalsByUserRejected(c, userId) ==
  /\ IsNext(c)
  /\ UNCHANGED crudVars
  /\ validateUserId(userId) = Ok
  /\ call' = [call EXCEPT ![c] =
        Ended("findGoalsByUser", [userId |-> userId], Null,
              rethrown(Rejected(ReadError)), 1, 0)]
  /\ UNCHANGED goals

\* addContribution up to its await, when repository.findOne rejects
AddContributionReadRejected(c, userId, goalId, amount) ==
  LET args == [userId |-> userId, goalId |-> goalId, amount |-> amount]
      err  == FirstError(<<validateUserId(userId), validateId(goalId),
                           validateContributionAmount(amount)>>)
  IN  /\ IsNext(c)
      /\ UNCHANGED crudVars
      /\ err = Ok
      /\ call' = [call EXCEPT ![c] = Awaiting("addContribution", args, Rejected(ReadError))]
      /\ UNCHANGED goals

\* addContribution from the result of findOne on, when repository.update
\* rejects
AddContributionUpdateRejected(c) ==
  LET args == call[c].args
      goal == call[c].goal
      newCurrentAmount == FAdd(goal.currentAmount, NumberOf(args.amount))
  IN  /\ call[c].pc = "await"
      /\ UNCHANGED crudVars
      /\ call[c].op = "addContribution"
      /\ ~IsRejected(goal) /\ goal # Null
      /\ ~notOwner(goal, args.userId)
      /\ ~exceedsTarget(newCurrentAmount, goal.targetAmount)
      /\ call' = [call EXCEPT ![c] =
            Ended("addContribution", args, goal, rethrown(Rejected(WriteError)), 1, 1)]
      /\ UNCHANGED goals

\* validateGoalOwnership up to its await, when repository.findOne rejects
ValidateGoalOwnershipReadRejected(c, userId, goalId) ==
  LET args == [userId |-> userId, goalId |-> goalId]
      err  == FirstError(<<validateUserId(userId), validateId(goalId)>>)
  IN  /\ IsNext(c)
      /\ UNCHANGED crudVars
      /\ err = Ok
      /\ call' = [call EXCEPT ![c] =
            Awaiting("validateGoalOwnership", args, Rejected(ReadError))]
      /\ UNCHANGED goals

\* The Store's owner deletes a goal: repository.delete(id)
DeleteGoal(id) ==
  /\ id \in StoredIds(goals)
  /\ goals' = delete(goals, id)
  /\ UNCHANGED <<call, crudVars>>

NextStore ==
  \/ Next
  \/ \E id \in GoalIdPool : DeleteGoal(id)
  \/ \E c \in Calls :
       \/ CreateGoalRejected(c, User1, ValidName, Num(300))
       \/ FindGoalsByUserRejected(c, User1)
       \/ AddContributionReadRejected(c, User1, GoalIdA, Num(100))
       \/ AddContributionUpdateRejected(c)
       \/ ValidateGoalOwnershipReadRejected(c, User1, GoalIdA)

SpecStore == Init /\ [][NextStore]_vars

(***************************************************************************)
(* BudgetsService, TransactionsService and UsersService: validation, then  *)
(* the repository.  update and delete look the record up first.  Their     *)
(* repositories are interfaces only (BudgetRepository,                     *)
(* TransactionRepository, UserRepository); the records a repository holds  *)
(* are modelled as a keyed store with insert, point lookup, update of the  *)
(* fields given and delete.  Strings stand where the services expect       *)
(* strings; the createdAt and updatedAt timestamps are left out.           *)
(***************************************************************************)
\* A Date, by the day it falls on (valid is false for new Date(NaN))
Date(day) == [type |-> "Date", valid |-> TRUE, time |-> day]

\* !(d instanceof Date)
NotDateObject(d) == d.type # "Date"

\* isNaN(d.getTime())
IsNaNTime(d) == ~d.valid

\* The messages of validateId, per service
IdMessages ==
  [budgets |-> <<"Budget ID is required and must be a string",
                 "Budget ID cannot be empty", "Budget ID must be a valid UUID">>,
   transactions |-> <<"Transaction ID is required and must be a string",
                      "Transaction ID cannot be empty",
                      "Transaction ID must be a valid UUID">>,
   users |-> <<"User ID is required and must be a string",
               "User ID cannot be empty", "User ID must be a valid UUID">>]

\* validateId(id) of the three services
validateRecordId(svc, id) ==
  IF id = EmptyString THEN IdMessages[svc][1]
  ELSE IF Len(Trim(CharsOf[id])) = 0 THEN IdMessages[svc][2]
  ELSE IF ~UuidV4RegexTest(CharsOf[id]) THEN IdMessages[svc][3]
  ELSE Ok

\* validateDateRange(startDate, endDate)
validateDateRange(startDate, endDate) ==
  IF NotDateObject(startDate) \/ IsNaNTime(startDate)
  THEN "Start date must be a valid Date object"
  ELSE IF NotDateObject(endDate) \/ IsNaNTime(endDate)
  THEN "End date must be a valid Date object"
  ELSE IF startDate.time > endDate.time
  THEN "Start date must be before or equal to end date"
  ELSE Ok

\* The tests a string field is put to: the UUID pattern, a trimmed length of
\* at least 2, the email pattern
Passes(test, cs) ==
  IF test = "uuid" THEN UuidV4RegexTest(cs)
  ELSE IF test = "email" THEN EmailRegexTest(cs)
  ELSE Len(Trim(cs)) >= 2

\* The check of one string field of validateBudgetData and its like:
\* present, it must not be blank and must pass the test; absent, it is an
\* error unless isUpdate
checkField(data, field, isUpdate, blankMessage, test, testMessage, requiredMessage) ==
  IF field \in DOMAIN data
  THEN IF Len(Trim(CharsOf[data[field]])) = 0 THEN blankMessage
       ELSE IF ~Passes(test, CharsOf[data[field]]) THEN testMessage
       ELSE Ok
  ELSE IF ~isUpdate THEN requiredMessage
  ELSE Ok

\* The check of a date field
checkDate(data, field, isUpdate, objectMessage, nanMessage, requiredMessage) ==
  IF field \in DOMAIN data
  THEN IF NotDateObject(data[field]) THEN objectMessage
       ELSE IF IsNaNTime(data[field]) THEN nanMessage
       ELSE Ok
  ELSE IF ~isUpdate THEN requiredMessage
  ELSE Ok

\* validateBudgetData(budgetData, isUpdate)
validateBudgetData(budgetData, isUpdate) ==
  FirstError(<<
    checkField(budgetData, "userId", isUpdate, "User ID is required and cannot be empty",
               "uuid", "User ID must be a valid UUID", "User ID is required"),
    checkField(budgetData, "category", isUpdate, "Category is required and cannot be empty",
               "length", "Category must be at least 2 characters long", "Category is required"),
    IF "limit" \in DOMAIN budgetData
    THEN IF budgetData.limit.type # "number" THEN "Limit must be a number"
         ELSE IF LessEqZero(budgetData.limit) THEN "Limit must be greater than zero"
         ELSE IF ~IsFinite(budgetData.limit) THEN "Limit must be a finite number"
         ELSE IF DecimalPlaces(budgetData.limit) > 2
              THEN "Limit cannot have more than 2 decimal places"
         ELSE Ok
    ELSE IF ~isUpdate THEN "Limit is required"
    ELSE Ok,
    IF "period" \in DOMAIN budgetData
    THEN IF budgetData.period \notin {"monthly", "weekly", "yearly"}
         THEN "Period must be one of: monthly, weekly, yearly"
         ELSE Ok
    ELSE IF ~isUpdate THEN "Period is required"
    ELSE Ok,
    IF "assetCode" \in DOMAIN budgetData
    THEN IF Len(Trim(CharsOf[budgetData.assetCode])) = 0
         THEN "Asset code is required and cannot be empty"
         ELSE IF Len(CharsOf[budgetData.assetCode]) > 12
         THEN "Asset code must be at most 12 characters"
         ELSE IF ~AssetRegexTest(CharsOf[budgetData.assetCode])
         THEN "Asset code must be alphanumeric"
         ELSE Ok
    ELSE IF ~isUpdate THEN "Asset code is required"
    ELSE Ok,
    checkDate(budgetData, "startDate", isUpdate, "Start date must be a valid Date object",
              "Start date must be a valid date", "Start date is required"),
    checkDate(budgetData, "endDate", isUpdate, "End date must be a valid Date object",
              "End date must be a valid date", "End date is required"),
    \* Date range validation (if both dates are provided)
    IF "startDate" \in DOMAIN budgetData /\ "endDate" \in DOMAIN budgetData
    THEN validateDateRange(budgetData.startDate, budgetData.endDate)
    ELSE Ok >>)

\* v < 0
Negative(v) ==
  \/ v.cls = "finite" /\ v.neg /\ v.mills # 0
  \/ v.cls = "Infinity" /\ v.neg

\* validateTransactionData(transactionData, isUpdate); the optional
\* description, which must be a string, is a string where it is given
validateTransactionData(transactionData, isUpdate) ==
  FirstError(<<
    checkField(transactionData, "userId", isUpdate,
               "User ID is required and cannot be empty",
               "uuid", "User ID must be a valid UUID", "User ID is required"),
    IF "amount" \in DOMAIN transactionData
    THEN IF transactionData.amount.type # "number" THEN "Amount must be a number"
         ELSE IF Negative(transactionData.amount) THEN "Amount cannot be negative"
         ELSE IF ~IsFinite(transactionData.amount) THEN "Amount must be a finite number"
         ELSE IF DecimalPlaces(transactionData.amount) > 2
              THEN "Amount cannot have more than 2 decimal places"
         ELSE Ok
    ELSE IF ~isUpdate THEN "Amount is required"
    ELSE Ok,
    checkField(transactionData, "category", isUpdate,
               "Category is required and cannot be empty",
               "length", "Category must be at least 2 characters long", "Category is required"),
    checkDate(transactionData, "date", isUpdate, "Date must be a valid Date object",
              "Date must be a valid date", "Date is required") >>)

\* validateUserData(userData, isUpdate)
validateUserData(userData, isUpdate) ==
  FirstError(<<
    checkField(userData, "email", isUpdate, "Email is required and cannot be empty",
               "email", "Email must be a valid email address", "Email is required"),
    checkField(userData, "name", isUpdate, "Name is required and cannot be empty",
               "length", "Name must be at least 2 characters long", "Name is required") >>)

\* The data validation of service svc
validateData(svc, data, isUpdate) ==
  IF svc = "budgets" THEN validateBudgetData(data, isUpdate)
  ELSE IF svc = "transactions" THEN validateTransactionData(data, isUpdate)
  ELSE validateUserData(data, isUpdate)

\* `${Entity} with ID ${id} not found`, without the id
NotFoundMessage ==
  [budgets |-> "Budget with ID not found",
   transactions |-> "Transaction with ID not found",
   users |-> "User with ID not found"]

\* repository.create(record): the record, stored under a new id
repoCreate(store, id, data) ==
  LET record == [id |-> id] @@ data
  IN  [value |-> record, store |-> Append(store, record)]

\* repository.update(id, data): the stored record with the fields of data
\* replaced; rejects for an id it does not hold
repoUpdate(store, id, data) ==
  IF id \notin StoredIds(store)
  THEN [threw |-> TRUE, error |-> Thrown("Error", "Record not found"), store |-> store]
  ELSE LET record == [id |-> id] @@ data @@ findOne(store, id)
       IN  [threw |-> FALSE, value |-> record,
            store |-> [store EXCEPT ![IndexOf(store, id)] = record]]

\* repository.delete(id): true when a record was removed
repoDelete(store, id) ==
  [value |-> id \in StoredIds(store), store |-> SelectSeq(store, LAMBDA x : x.id # id)]

\* The ids the repositories give to new records
RecordIdPool == {GoalIdA, GoalIdB}

\* The ids service svc has given out so far
IssuedRecordIds(svc) ==
  {request[r].result.value.id :
     r \in {q \in Requests : /\ request[q].svc = svc /\ request[q].op = "create"
                             /\ request[q].result.kind = "ok"}}

\* The ids update and delete are called with: those of records, and one
\* that is not a version-4 UUID
RecordIdInputs == RecordIdPool \cup {User1}

BudgetBase ==
  [userId |-> UserV4, category |-> Category, limit |-> Num(500000), period |-> Monthly,
   assetCode |-> AssetCode, startDate |-> Date(1), endDate |-> Date(31)]

\* create(data) calls, per service
CreateData ==
  [budgets |-> {BudgetBase,
                [BudgetBase EXCEPT !.startDate = Date(31), !.endDate = Date(1)],
                [BudgetBase EXCEPT !.period = Daily]},
   transactions |-> {[userId |-> UserV4, amount |-> Num(50000), category |-> Category,
                      date |-> Date(1)],
                     [userId |-> UserV4, amount |-> Num(50000), category |-> Category]},
   users |-> {[email |-> Email, name |-> ValidName],
              [email |-> BadEmail, name |-> ValidName]}]

\* The data of update(id, data) calls, per service
UpdateData ==
  [budgets |-> {[limit |-> Num(750000)], [limit |-> Num(0)],
                [startDate |-> Date(60)],
                [startDate |-> Date(31), endDate |-> Date(1)],
                [startDate |-> Date(1), endDate |-> Date(60)]},
   transactions |-> {[amount |-> Num(75000)], [amount |-> NegNum(100)]},
   users |-> {[name |-> ValidName], [name |-> ShortName]}]

\* A call on a service of Services that has ended
EndedRequest(svc, op, args, read, result, finds, creates, updates, deletes) ==
  [svc |-> svc, op |-> op, pc |-> "done", args |-> args, read |-> read,
   result |-> result, finds |-> finds, creates |-> creates, updates |-> updates,
   deletes |-> deletes]

\* A call suspended at  await this.repository.findOne(id)
AwaitingRequest(svc, op, args, read) ==
  [svc |-> svc, op |-> op, pc |-> "await", args |-> args, read |-> read,
   result |-> Pending, finds |-> 1, creates |-> 0, updates |-> 0, deletes |-> 0]

\* Call r is the next one to be made
IsNextRequest(r) ==
  request[r].pc = "idle" /\ \A q \in Requests : q < r => request[q].pc # "idle"

\* create(data): validation, then repository.create
ServiceCreate(r, svc, data) ==
  LET args == [data |-> data]
      err  == validateData(svc, data, FALSE)
  IN  /\ IsNextRequest(r)
      /\ UNCHANGED savingsVars
      /\ IF err # Ok
         THEN /\ request' = [request EXCEPT ![r] =
                    EndedRequest(svc, "create", args, Null,
                                 Thrown("ValidationError", err), 0, 0, 0, 0)]
              /\ UNCHANGED repo
         ELSE \E id \in RecordIdPool \ (StoredIds(repo[svc]) \cup IssuedRecordIds(svc)) :
                LET outcome == repoCreate(repo[svc], id, data)
                IN  /\ repo' = [repo EXCEPT ![svc] = outcome.store]
                    /\ request' = [request EXCEPT ![r] =
                          EndedRequest(svc, "create", args, Null,
                                       Returned(outcome.value), 0, 1, 0, 0)]

\* A lookup result that is never taken for a missing record
notFoundOff(existing) == FALSE

\* !existingBudget, !existingTransaction, !existingUser
notFound(existing) == existing = Null

\* update(id, data) up to  await this.repository.findOne(id)
ServiceUpdate(r, svc, id, data) ==
  LET args == [id |-> id, data |-> data]
      err  == FirstError(<<validateRecordId(svc, id), validateData(svc, data, TRUE)>>)
  IN  /\ IsNextRequest(r)
      /\ UNCHANGED savingsVars
      /\ request' = [request EXCEPT ![r] =
            IF err # Ok
            THEN EndedRequest(svc, "update", args, Null,
                              Thrown("ValidationError", err), 0, 0, 0, 0)
            ELSE AwaitingRequest(svc, "update", args, findOne(repo[svc], id))]
      /\ UNCHANGED repo

\* update from the result of findOne on
ServiceUpdateResume(r) ==
  LET svc  == request[r].svc
      args == request[r].args
      existing == request[r].read
  IN  /\ request[r].pc = "await"
      /\ request[r].op = "update"
      /\ UNCHANGED savingsVars
      /\ IF notFound(existing)
         THEN /\ request' = [request EXCEPT ![r] =
                    EndedRequest(svc, "update", args, existing,
                                 Thrown("NotFoundError", NotFoundMessage[svc]), 1, 0, 0, 0)]
              /\ UNCHANGED repo
         ELSE LET outcome == repoUpdate(repo[svc], args.id, args.data)
              IN  /\ repo' = [repo EXCEPT ![svc] = outcome.store]
                  /\ request' = [request EXCEPT ![r] =
                        EndedRequest(svc, "update", args, existing,
                                     IF outcome.threw THEN outcome.error
                                     ELSE Returned(outcome.value), 1, 0, 1, 0)]

\* delete(id) up to  await this.repository.findOne(id)
ServiceDelete(r, svc, id) ==
  LET args == [id |-> id]
      err  == validateRecordId(svc, id)
  IN  /\ IsNextRequest(r)
      /\ UNCHANGED savingsVars
      /\ request' = [request EXCEPT ![r] =
            IF err # Ok
            THEN EndedRequest(svc, "delete", args, Null,
                              Thrown("ValidationError", err), 0, 0, 0, 0)
            ELSE AwaitingRequest(svc, "delete", args, findOne(repo[svc], id))]
      /\ UNCHANGED repo

\* delete from the result of findOne on
ServiceDeleteResume(r) ==
  LET svc  == request[r].svc
      args == request[r].args
      existing == request[r].read
  IN  /\ request[r].pc = "await"
      /\ request[r].op = "delete"
      /\ UNCHANGED savingsVars
      /\ IF notFound(existing)
         THEN /\ request' = [request EXCEPT ![r] =
                    EndedRequest(svc, "delete", args, existing,
                                 Thrown("NotFoundError", NotFoundMessage[svc]), 1, 0, 0, 0)]
              /\ UNCHANGED repo
         ELSE LET outcome == repoDelete(repo[svc], args.id)
              IN  /\ repo' = [repo EXCEPT ![svc] = outcome.store]
                  /\ request' = [request EXCEPT ![r] =
                        EndedRequest(svc, "delete", args, existing,
                                     Returned(outcome.value), 1, 0, 0, 1)]

NextCrud ==
  \E r \in Requests :
    \/ \E svc \in Services : \E data \in CreateData[svc] : ServiceCreate(r, svc, data)
    \/ \E svc \in Services : \E id \in RecordIdInputs : \E data \in UpdateData[svc] :
         ServiceUpdate(r, svc, id, data)
    \/ ServiceUpdateResume(r)
    \/ \E svc \in Services : \E id \in RecordIdInputs : ServiceDelete(r, svc, id)
    \/ ServiceDeleteResume(r)

SpecCrud == Init /\ [][NextCrud]_vars

(***************************************************************************)
(* SavingsController: each endpoint calls the service inside try/catch and *)
(* hands what it catches to handleError, which throws the HTTP exception   *)
(* of the response.                                                        *)
(***************************************************************************)
\* The characters of the messages of the errors a Store rejects with.  The
\* id inside `Goal with ID ${id} not found` is left out: a UUID is made of
\* hex digits and dashes, which complete none of the patterns below.
MessageChars ==
  ("Database connection failed" :> <<"D", "a", "t", "a", "b", "a", "s", "e", " ", "c", "o", "n", "n", "e", "c", "t", "i", "o", "n", " ", "f", "a", "i", "l", "e", "d">>)
  @@ ("Deadlock detected" :> <<"D", "e", "a", "d", "l", "o", "c", "k", " ", "d", "e", "t", "e", "c", "t", "e", "d">>)
  @@ ("Goal with ID not found" :> <<"G", "o", "a", "l", " ", "w", "i", "t", "h", " ", "I", "D", " ", "n", "o", "t", " ", "f", "o", "u", "n", "d">>)

LowerOf ==
  ("A" :> "a")
  @@ ("B" :> "b")
  @@ ("C" :> "c")
  @@ ("D" :> "d")
  @@ ("E" :> "e")
  @@ ("F" :> "f")
  @@ ("G" :> "g")
  @@ ("H" :> "h")
  @@ ("I" :> "i")
  @@ ("J" :> "j")
  @@ ("K" :> "k")
  @@ ("L" :> "l")
  @@ ("M" :> "m")
  @@ ("N" :> "n")
  @@ ("O" :> "o")
  @@ ("P" :> "p")
  @@ ("Q" :> "q")
  @@ ("R" :> "r")
  @@ ("S" :> "s")
  @@ ("T" :> "t")
  @@ ("U" :> "u")
  @@ ("V" :> "v")
  @@ ("W" :> "w")
  @@ ("X" :> "x")
  @@ ("Y" :> "y")
  @@ ("Z" :> "z")

\* String.prototype.toLowerCase, on the characters of a string
ToLowerCase(cs) ==
  [i \in 1..Len(cs) |-> IF cs[i] \in DOMAIN LowerOf THEN LowerOf[cs[i]] ELSE cs[i]]

\* String.prototype.includes, on the characters of two strings
Includes(cs, pattern) ==
  \E i \in 0..(Len(cs) - Len(pattern)) :
    \A j \in 1..Len(pattern) : cs[i + j] = pattern[j]

dbErrorPatterns ==
  <<<<"E", "C", "O", "N", "N", "R", "E", "F", "U", "S", "E", "D">>,
    <<"E", "T", "I", "M", "E", "D", "O", "U", "T">>,
    <<"c", "o", "n", "n", "e", "c", "t", "i", "o", "n">>,
    <<"d", "a", "t", "a", "b", "a", "s", "e">>,
    <<"c", "o", "n", "s", "t", "r", "a", "i", "n", "t">>,
    <<"d", "u", "p", "l", "i", "c", "a", "t", "e", " ", "k", "e", "y">>,
    <<"f", "o", "r", "e", "i", "g", "n", " ", "k", "e", "y">>,
    <<"d", "e", "a", "d", "l", "o", "c", "k">>>>

\* error instanceof X, for the error classes of the service
InstanceOf(error, class) == error.kind = class

\* isDatabaseError(error): error instanceof Error, whose lowercased message
\* includes one of the lowercased patterns
isDatabaseError(error) ==
  /\ error.kind \in {"Error", "ValidationError", "NotFoundError", "AuthorizationError"}
  /\ \E k \in 1..Len(dbErrorPatterns) :
       Includes(ToLowerCase(MessageChars[error.message]), ToLowerCase(dbErrorPatterns[k]))

\* A handleError that answers a NotFoundError with BadRequestException
handleErrorNotFoundAsBadRequest(error) ==
  IF InstanceOf(error, "ValidationError") \/ InstanceOf(error, "NotFoundError")
  THEN [exception |-> "BadRequestException", status |-> 400, message |-> error.message]
  ELSE IF InstanceOf(error, "AuthorizationError")
  THEN [exception |-> "ForbiddenException", status |-> 403, message |-> error.message]
  ELSE IF isDatabaseError(error)
  THEN [exception |-> "InternalServerErrorException", status |-> 500,
        message |-> "An error occurred while processing your request"]
  ELSE [exception |-> "InternalServerErrorException", status |-> 500,
        message |-> "An unexpected error occurred"]

\* handleError(error, method, context): the HTTP exception it throws
handleError(error) ==
  IF InstanceOf(error, "ValidationError")
  THEN [exception |-> "BadRequestException", status |-> 400, message |-> error.message]
  ELSE IF InstanceOf(error, "AuthorizationError")
  THEN [exception |-> "ForbiddenException", status |-> 403, message |-> error.message]
  ELSE IF InstanceOf(error, "NotFoundError")
  THEN [exception |-> "NotFoundException", status |-> 404, message |-> error.message]
  ELSE IF isDatabaseError(error)
  THEN [exception |-> "InternalServerErrorException", status |-> 500,
        message |-> "An error occurred while processing your request"]
  ELSE [exception |-> "InternalServerErrorException", status |-> 500,
        message |-> "An unexpected error occurred"]

\* The service methods the controller's endpoints call
Endpoints == {"createGoal", "findGoalsByUser", "addContribution"}

\* What the endpoint that made service call c answers, once the call has
\* ended: the goal or goals with the endpoint's @HttpCode, or the exception
\* of handleError
responseOf(c) ==
  IF call[c].result.kind = "ok"
  THEN [exception |-> "none",
        status |-> IF call[c].op = "createGoal" THEN 201 ELSE 200,
        message |-> ""]
  ELSE handleError(call[c].result)

(***************************************************************************)
(* Reading stored numbers as decimal money.  A binary64 number prints as   *)
(* the shortest decimal that reads back as it, so the number nearest to    *)
(* k cents prints as k cents.                                              *)
(***************************************************************************)
MaxCents == 40

CentsTable == [k \in 0..MaxCents |-> NumberOf(Num(10 * k))]

HasCents(x) == \E k \in 0..MaxCents : CentsTable[k] = x

CentsOf(x) == CHOOSE k \in 0..MaxCents : CentsTable[k] = x

(***************************************************************************)
(* Vocabulary of the properties                                            *)
(***************************************************************************)
Stored == 1..Len(goals)

IsContribution(c) == call[c].op = "addContribution"

\* Call c is an addContribution that returned the updated goal
Succeeded(c) ==
  IsContribution(c) /\ call[c].pc = "done" /\ call[c].result.kind = "ok"

\* Calls c and d are addContribution calls on one goal that read the same
\* stored record: neither read was made after the other's write
ReadSameRecord(c, d) ==
  /\ c # d
  /\ IsContribution(c) /\ IsContribution(d)
  /\ call[c].reads = 1 /\ call[d].reads = 1
  /\ call[c].goal # Null
  /\ call[c].args.goalId = call[d].args.goalId
  /\ call[c].goal = call[d].goal

\* No call is suspended: every call made has returned or thrown
Quiescent == \A c \in Calls : call[c].pc # "await"

\* The amounts of the successful contributions to goal id among the first n
\* calls, added up from 0 in the order of the calls
RECURSIVE creditedUpTo(_, _)
creditedUpTo(id, n) ==
  IF n = 0 THEN Zero
  ELSE LET sum == creditedUpTo(id, n - 1)
       IN  IF Succeeded(n) /\ call[n].args.goalId = id
           THEN FAdd(sum, NumberOf(call[n].args.amount))
           ELSE sum

ExceedError == Thrown("ValidationError", "Contribution would exceed target amount")

\* This step is call c going from its Store read to its end
Resumes(c) == call[c].pc = "await" /\ call'[c].pc = "done"

\* This step makes call c, an addContribution(userId, goalId, amount)
Invokes(c) == call[c].pc = "idle" /\ call'[c].pc # "idle" /\ call'[c].op = "addContribution"

(***************************************************************************)
(* Properties                                                              *)
(***************************************************************************)

\* C1: every stored goal has 0 <= currentAmount <= targetAmount, in every
\* reachable state, concurrent contributions included
C1_AmountWithinTarget ==
  \A i \in Stored :
    /\ FLessEq(Zero, goals[i].currentAmount)
    /\ FLessEq(goals[i].currentAmount, goals[i].targetAmount)

\* Two contributions that read the same record have both succeeded
C1_Witness ==
  \E c, d \in Calls : ReadSameRecord(c, d) /\ Succeeded(c) /\ Succeeded(d)

\* C2: two concurrent contributions to one goal whose amounts together
\* exceed the target never both succeed
C2_NotBothSucceed ==
  \A c, d \in Calls :
    ( /\ ReadSameRecord(c, d)
      /\ HasCents(call[c].goal.currentAmount) /\ HasCents(call[c].goal.targetAmount)
      /\ 10 * CentsOf(call[c].goal.currentAmount)
           + call[c].args.amount.mills + call[d].args.amount.mills
         > 10 * CentsOf(call[c].goal.targetAmount) )
    => ~(Succeeded(c) /\ Succeeded(d))

\* C3: once every call has returned, a goal's currentAmount is the sum of
\* the amounts of the contributions to it that succeeded
C3_NoContributionLost ==
  Quiescent =>
    \A i \in Stored : goals[i].currentAmount = creditedUpTo(goals[i].id, MaxCalls)

\* C4: no step makes a stored goal's currentAmount smaller
C4_AmountNeverDecreases ==
  [][\A i \in Stored : FLessEq(goals[i].currentAmount, goals'[i].currentAmount)]_vars

\* C5: no step takes a completed goal back to not completed
C5_CompletionOneWay ==
  [][\A i \in Stored : goals[i].isCompleted => goals'[i].isCompleted]_vars

\* C6: every stored goal's progress is calculateProgress of that record's
\* currentAmount and targetAmount
C6_ProgressConsistent ==
  \A i \in Stored :
    goals[i].progress = calculateProgress(goals[i].currentAmount, goals[i].targetAmount)

\* A goal part of the way to its target, its progress not a whole percentage
C6_Witness ==
  \E i \in Stored :
    /\ goals[i].currentAmount = CentsTable[20]
    /\ goals[i].progress = FDivSmall(IntToDouble(6667), 100)

\* C7: every stored goal has isCompleted exactly when its currentAmount
\* equals its targetAmount
C7_CompletedIffAtTarget ==
  \A i \in Stored :
    goals[i].isCompleted <=> (goals[i].currentAmount = goals[i].targetAmount)

\* A goal that reached its target
C7_Witness ==
  \E i \in Stored : goals[i].isCompleted /\ goals[i].currentAmount = goals[i].targetAmount

\* C8: a valid contribution by the owner that fits under the target and
\* runs with no other write to the goal between its read and its write
\* succeeds and stores exactly current + amount, in decimal, with the
\* progress of that sum
C8_ContributionAccounting ==
  [][\A c \in Calls :
       LET args == call[c].args
           goal == call[c].goal
       IN  ( /\ Resumes(c) /\ IsContribution(c)
             /\ goal # Null /\ goal.userId = args.userId
             /\ findOne(goals, args.goalId) = goal
             /\ args.amount.cls = "finite"
             /\ HasCents(goal.currentAmount) /\ HasCents(goal.targetAmount)
             /\ 10 * CentsOf(goal.currentAmount) + args.amount.mills
                  <= 10 * CentsOf(goal.targetAmount) )
           => LET sum    == CentsTable[CentsOf(goal.currentAmount) + args.amount.mills \div 10]
                  stored == findOne(goals', args.goalId)
              IN  /\ call'[c].result.kind = "ok"
                  /\ stored.currentAmount = sum
                  /\ stored.progress = calculateProgress(sum, goal.targetAmount)]_vars

\* The goal exists, userId owns it, and current + amount > target in decimal
Overflows(goal, userId, amount) ==
  /\ goal # Null /\ goal.userId = userId
  /\ amount.type = "number" /\ amount.cls = "finite" /\ ~amount.neg
  /\ HasCents(goal.currentAmount) /\ HasCents(goal.targetAmount)
  /\ 10 * CentsOf(goal.currentAmount) + amount.mills > 10 * CentsOf(goal.targetAmount)

\* Call c ends in this step as a rejected overflow that wrote nothing
RejectsOverflow(c) ==
  call'[c].result = ExceedError /\ call'[c].writes = 0 /\ goals' = goals

NonOwner(goal, userId) == goal # Null /\ goal.userId # userId

\* Call c ends in this step with AuthorizationError, having written nothing
RejectsNonOwner(c) ==
  call'[c].result.kind = "AuthorizationError" /\ call'[c].writes = 0 /\ goals' = goals

IsLookup(c) == call[c].op \in {"addContribution", "validateGoalOwnership"}

\* C11: a lookup call with valid arguments reads no goal exactly when the
\* Map holds none with that id, ends with NotFoundError exactly when it read
\* none, and ends with AuthorizationError only when it read a goal of
\* another user
C11_ExistenceBeforeOwnership ==
  [][\A c \in Calls :
       /\ (call[c].pc = "idle" /\ call'[c].pc = "await")
          => /\ (call'[c].goal = Null) <=> (call'[c].args.goalId \notin StoredIds(goals))
             /\ call'[c].goal # Null
                => /\ call'[c].goal.id = call'[c].args.goalId
                   /\ \E i \in Stored : goals[i] = call'[c].goal
       /\ (Resumes(c) /\ IsLookup(c))
          => /\ (call'[c].result.kind = "NotFoundError") <=> (call[c].goal = Null)
             /\ call'[c].result.kind = "AuthorizationError"
                => NonOwner(call[c].goal, call[c].args.userId)]_vars

\* One lookup ended with NotFoundError for an id the Map did not hold and
\* another with AuthorizationError for a goal of another user
C11_Witness ==
  \E c, d \in Calls :
    /\ IsLookup(c) /\ call[c].pc = "done" /\ call[c].reads = 1
    /\ call[c].goal = Null /\ call[c].result.kind = "NotFoundError"
    /\ IsLookup(d) /\ call[d].pc = "done" /\ call[d].reads = 1
    /\ NonOwner(call[d].goal, call[d].args.userId)
    /\ call[d].result.kind = "AuthorizationError"

\* C12: a step that changes a stored goal is the end of a successful
\* addContribution made with that goal's id by that goal's userId
C12_OnlyOwnerMutates ==
  [][\A i \in Stored :
       goals'[i] # goals[i]
       => \E c \in Calls :
            /\ Resumes(c) /\ IsContribution(c)
            /\ call'[c].result.kind = "ok"
            /\ call[c].args.goalId = goals[i].id
            /\ call[c].args.userId = goals[i].userId]_vars

\* The second of two stored goals took a contribution, the first none
C12_Witness ==
  /\ Len(goals) = 2
  /\ goals[1].currentAmount = Zero
  /\ goals[2].currentAmount # Zero

\* The stored goals of userId
OwnedBy(userId) == {goals[i] : i \in {j \in Stored : goals[j].userId = userId}}

\* C13: findGoalsByUser with a valid userId returns the stored goals of that
\* user, each once, and no other goal
C13_OwnershipIsolation ==
  [][\A c \in Calls :
       ( /\ call[c].pc = "idle" /\ call'[c].op = "findGoalsByUser"
         /\ validateUserId(call'[c].args.userId) = Ok )
       => LET result == call'[c].result
              owned  == OwnedBy(call'[c].args.userId)
          IN  /\ result.kind = "ok"
              /\ {result.value[k] : k \in 1..Len(result.value)} = owned
              /\ Len(result.value) = Cardinality(owned)]_vars

\* A listing returned one goal while the Map held a goal of another user too
C13_Witness ==
  \E c \in Calls :
    /\ call[c].op = "findGoalsByUser" /\ call[c].result.kind = "ok"
    /\ Len(call[c].result.value) = 1
    /\ \E i \in Stored : goals[i].userId # call[c].args.userId

\* C14: the goal a createGoal call returned is stored, once, under the id,
\* userId and targetAmount it was returned with, in every later state
C14_IdentityImmutable ==
  \A c \in Calls :
    (call[c].op = "createGoal" /\ call[c].result.kind = "ok")
    => LET created == call[c].result.value
           same    == {i \in Stored : goals[i].id = created.id}
       IN  /\ Cardinality(same) = 1
           /\ \A i \in same : /\ goals[i].userId = created.userId
                              /\ goals[i].targetAmount = created.targetAmount

\* A goal that took a contribution after createGoal returned it
C14_Witness ==
  \E c \in Calls :
    /\ call[c].op = "createGoal" /\ call[c].result.kind = "ok"
    /\ \E d \in Calls : Succeeded(d) /\ call[d].args.goalId = call[c].result.value.id

\* C15: an owner's valid contribution of exactly target - current, in
\* decimal, to a goal that is not completed, with no other write to the goal
\* between its read and its write, succeeds and leaves the goal completed
\* with progress 100
C15_ExactRemainderCompletes ==
  [][\A c \in Calls :
       LET args == call[c].args
           goal == call[c].goal
       IN  ( /\ Resumes(c) /\ IsContribution(c)
             /\ goal # Null /\ goal.userId = args.userId
             /\ findOne(goals, args.goalId) = goal
             /\ ~goal.isCompleted
             /\ args.amount.cls = "finite"
             /\ HasCents(goal.currentAmount) /\ HasCents(goal.targetAmount)
             /\ 10 * CentsOf(goal.currentAmount) + args.amount.mills
                  = 10 * CentsOf(goal.targetAmount) )
           => LET stored == findOne(goals', args.goalId)
              IN  /\ call'[c].result.kind = "ok"
                  /\ stored.isCompleted
                  /\ stored.progress = IntToDouble(100)]_vars

\* C16: no step changes a stored goal that is completed, and an owner's
\* addContribution with a valid amount made on a completed goal reaches its
\* Store read and is then rejected with ValidationError "Contribution would
\* exceed target amount", writing nothing
C16_NoUpdateAfterCompletion ==
  [][/\ \A i \in Stored : goals[i].isCompleted => goals'[i] = goals[i]
     /\ \A c \in Calls :
          /\ ( /\ Invokes(c)
               /\ LET goal == findOne(goals, call'[c].args.goalId)
                  IN  /\ goal # Null /\ goal.isCompleted
                      /\ goal.userId = call'[c].args.userId
               /\ validateContributionAmount(call'[c].args.amount) = Ok )
             => call'[c].pc = "await"
          /\ ( /\ Resumes(c) /\ IsContribution(c)
               /\ call[c].goal # Null /\ call[c].goal.isCompleted
               /\ call[c].goal.userId = call[c].args.userId )
             => RejectsOverflow(c)]_vars

(***************************************************************************)
(* The validation rules as the arguments' shapes: an identifier is a UUID, *)
(* a name has at least 2 characters once trimmed, a money amount is a      *)
(* finite number > 0 with at most 2 decimal places.                        *)
(***************************************************************************)
ValidIdentifier(id) == UuidRegexTest(CharsOf[id])

ValidGoalName(name) == Len(Trim(CharsOf[name])) >= 2

ValidMoney(v) ==
  /\ v.type = "number" /\ v.cls = "finite" /\ ~v.neg
  /\ v.mills > 0 /\ v.mills % 10 = 0

\* This step makes call c, a createGoal(userId, name, targetAmount)
InvokesCreate(c) == call[c].pc = "idle" /\ call'[c].op = "createGoal"

C18_CreationRejection ==
  [][\A c \in Calls :
       ( /\ InvokesCreate(c)
         /\ ValidIdentifier(call'[c].args.userId)
         /\ ValidGoalName(call'[c].args.name)
         /\ LET t == call'[c].args.targetAmount
            IN  t.type = "number" /\ t.cls = "finite" /\ (t.neg \/ t.mills = 0) )
       => /\ call'[c].result =
               Thrown("ValidationError", "Target amount must be greater than 0")
          /\ call'[c].writes = 0
          /\ goals' = goals]_vars

\* createGoal was rejected for a target of 0 and for a negative target
C18_Witness ==
  \E c, d \in Calls :
    /\ call[c].op = "createGoal" /\ call[c].args.targetAmount = Num(0)
    /\ call[c].result.kind = "ValidationError"
    /\ call[d].op = "createGoal" /\ call[d].args.targetAmount.neg
    /\ call[d].result.kind = "ValidationError"

\* Call c, as made in this step, has an argument that breaks a validation rule
InvalidArguments(c) ==
  LET op   == call'[c].op
      args == call'[c].args
  IN  \/ op = "createGoal"
         /\ ~(ValidIdentifier(args.userId) /\ ValidGoalName(args.name)
              /\ ValidMoney(args.targetAmount))
      \/ op = "findGoalsByUser" /\ ~ValidIdentifier(args.userId)
      \/ op = "addContribution"
         /\ ~(ValidIdentifier(args.userId) /\ ValidIdentifier(args.goalId)
              /\ ValidMoney(args.amount))
      \/ op = "validateGoalOwnership"
         /\ ~(ValidIdentifier(args.userId) /\ ValidIdentifier(args.goalId))

\* C19: a call with an invalid argument ends at once with ValidationError,
\* with no Store read and no Store write
C19_ValidationBeforeStore ==
  [][\A c \in Calls :
       (call[c].pc = "idle" /\ call'[c].pc # "idle" /\ InvalidArguments(c))
       => /\ call'[c].pc = "done"
          /\ call'[c].result.kind = "ValidationError"
          /\ call'[c].reads = 0 /\ call'[c].writes = 0
          /\ goals' = goals]_vars

\* C20: a call issues at most one Store read and at most one Store write,
\* and a call that issues both has issued the read in an earlier step than
\* the write
C20_OneReadThenOneWrite ==
  [][\A c \in Calls :
       /\ call'[c].reads \in 0..1 /\ call'[c].writes \in 0..1
       /\ call'[c].reads >= call[c].reads /\ call'[c].writes >= call[c].writes
       /\ (call'[c].writes > call[c].writes /\ call'[c].reads = 1)
          => call[c].reads = 1]_vars

\* An addContribution that read the goal and then wrote it
C20_Witness ==
  \E c \in Calls :
    IsContribution(c) /\ call[c].pc = "done" /\ call[c].reads = 1 /\ call[c].writes = 1

\* The domain error kinds of the service
DomainErrors == {"ValidationError", "NotFoundError", "AuthorizationError"}

\* Call c ended by throwing
Threw(c) == call[c].pc = "done" /\ call[c].result.kind # "ok"

\* C21: a call whose Store read was rejected ends with the rejection's error
\* and writes nothing; a call that throws after a write attempt throws the
\* write's error, a plain Error and none of the domain errors, having made
\* that one attempt only and changed nothing; a findGoalsByUser that throws
\* after its read throws the read's error
C21_StoreFailuresPropagate ==
  [][\A c \in Calls :
       /\ (call[c].pc = "await" /\ IsRejected(call[c].goal) /\ call'[c] # call[c])
          => /\ call'[c].pc = "done"
             /\ call'[c].result = call[c].goal.rejected
             /\ call'[c].result.kind \notin DomainErrors
             /\ call'[c].writes = 0
             /\ goals' = goals
       /\ (call[c].pc # "done" /\ call'[c].pc = "done"
           /\ call'[c].result.kind # "ok" /\ call'[c].writes > 0)
          => /\ call'[c].writes = 1
             /\ call'[c].result \in {WriteError, Thrown("Error", "Goal with ID not found")}
             /\ goals' = goals
       /\ (call[c].pc # "done" /\ call'[c].pc = "done"
           /\ call'[c].op = "findGoalsByUser"
           /\ call'[c].result.kind # "ok" /\ call'[c].reads > 0)
          => call'[c].result = ReadError /\ call'[c].writes = 0]_vars

\* An addContribution ended with the error its read was rejected with, and
\* another with the error its write was rejected with
C21_Witness ==
  \E c, d \in Calls :
    /\ IsContribution(c) /\ Threw(c) /\ IsRejected(call[c].goal)
    /\ call[c].result = ReadError
    /\ IsContribution(d) /\ Threw(d) /\ call[d].writes = 1
    /\ call[d].result = WriteError

\* This step ends call c, a createGoal or an addContribution, with a goal
\* returned
ReturnsGoal(c) ==
  /\ call[c].pc # "done" /\ call'[c].pc = "done"
  /\ call'[c].op \in {"createGoal", "addContribution"}
  /\ call'[c].result.kind = "ok"

\* C22: in the state a successful createGoal or addContribution leaves,
\* findOne on the returned goal's id gives exactly the returned record, and
\* findByUserId on its owner lists that record, once, for that id
C22_RoundTripRead ==
  [][\A c \in Calls :
       ReturnsGoal(c)
       => LET goal == call'[c].result.value
          IN  /\ findOne(goals', goal.id) = goal
              /\ SelectSeq(findByUserId(goals', goal.userId),
                           LAMBDA g : g.id = goal.id) = <<goal>>]_vars

\* A contribution returned a goal with a changed amount, which is the
\* stored one, beside another stored goal
C22_Witness ==
  \E c \in Calls :
    /\ Succeeded(c) /\ Len(goals) = 2
    /\ call[c].result.value.currentAmount # Zero
    /\ findOne(goals, call[c].args.goalId) = call[c].result.value

IsOwnershipCheck(c) == call[c].op = "validateGoalOwnership"

\* C23: a validateGoalOwnership call with well-formed ids writes nothing and
\* changes no stored goal; it returns true exactly when its Store read found
\* a goal whose userId is the caller's; it throws NotFoundError or
\* AuthorizationError exactly as an addContribution call with the same
\* userId and goalId that read the same does
C23_OwnershipCheckReadOnly ==
  [][\A c \in Calls :
       (call'[c] # call[c] /\ call'[c].op = "validateGoalOwnership"
        /\ ValidIdentifier(call'[c].args.userId)
        /\ ValidIdentifier(call'[c].args.goalId))
       => /\ goals' = goals
          /\ call'[c].writes = 0
          /\ call'[c].pc = "done"
             => LET goal   == call'[c].goal
                    result == call'[c].result
                IN  /\ result = Returned(TRUE)
                         <=> (goal # Null /\ goal.userId = call'[c].args.userId)
                    /\ result.kind \in {"ok", "NotFoundError", "AuthorizationError"}
                    /\ \A d \in Calls :
                         ( /\ call'[d].op = "addContribution" /\ call'[d].pc = "done"
                           /\ call'[d].reads = 1
                           /\ call'[d].args.userId = call'[c].args.userId
                           /\ call'[d].args.goalId = call'[c].args.goalId
                           /\ call'[d].goal = goal )
                         => IF result.kind = "ok"
                            THEN call'[d].result.kind
                                   \notin {"NotFoundError", "AuthorizationError"}
                            ELSE call'[d].result = result]_vars

\* A caller's check and contribution on another owner's goal both ended with
\* AuthorizationError
C23_Witness ==
  \E d, e \in Calls :
    /\ IsOwnershipCheck(d) /\ call[d].result.kind = "AuthorizationError"
    /\ IsContribution(e) /\ call[e].result = call[d].result
    /\ call[e].args.goalId = call[d].args.goalId
    /\ call[e].args.userId = call[d].args.userId

\* C24: every stored goal has 0 <= progress <= 100 in every reachable state,
\* while calculateProgress gives more than 100 for an amount above the
\* target
C24_ProgressWithinRange ==
  /\ \A i \in Stored :
       /\ FLessEq(Zero, goals[i].progress)
       /\ FLessEq(goals[i].progress, IntToDouble(100))
  /\ FGreater(calculateProgress(NumberOf(Num(400)), NumberOf(Num(300))),
              IntToDouble(100))

\* A goal that was at a progress strictly between 0 and 100 is stored with
\* progress 100
C24_Witness ==
  \E i \in Stored, c \in Calls :
    /\ goals[i].progress = IntToDouble(100)
    /\ Succeeded(c) /\ call[c].args.goalId = goals[i].id
    /\ FLess(Zero, call[c].result.value.progress)
    /\ FLess(call[c].result.value.progress, IntToDouble(100))

\* C25: every stored goal has targetAmount > 0, in every reachable state
C25_TargetPositive ==
  \A i \in Stored : FGreater(goals[i].targetAmount, Zero)

\* A goal that a contribution has updated is stored, and a createGoal with a
\* target <= 0 was made
C25_Witness ==
  \E c, d \in Calls :
    /\ Succeeded(c) /\ findOne(goals, call[c].args.goalId) = call[c].result.value
    /\ call[d].op = "createGoal" /\ Threw(d)
    /\ LessEqZero(call[d].args.targetAmount)

ReadDeletedGoal(c) ==
  /\ IsContribution(c)
  /\ ~IsRejected(call[c].goal) /\ call[c].goal # Null
  /\ call[c].args.goalId \notin StoredIds(goals)

\* C28: an addContribution that resumes after the goal it read was deleted
\* ends with an error and leaves the Store without a goal of that id
C28_DeletedGoalNotRecreated ==
  [][\A c \in Calls :
       (Resumes(c) /\ ReadDeletedGoal(c))
       => /\ call'[c].result.kind # "ok"
          /\ call[c].args.goalId \notin StoredIds(goals')]_vars

\* The owner's contribution, within the target, reached repository.update
\* after the goal was deleted
C28_Witness ==
  \E c \in Calls :
    /\ ReadDeletedGoal(c) /\ call[c].pc = "done"
    /\ call[c].writes = 1
    /\ call[c].result = Thrown("Error", "Goal with ID not found")

\* Call c is an addContribution that has ended, made on an existing goal by a
\* caller who is not its owner
EndedForNonOwner(c) ==
  /\ IsContribution(c) /\ call[c].pc = "done" /\ call[c].reads = 1
  /\ NonOwner(call[c].goal, call[c].args.userId)

\* C29: all addContribution calls made on existing goals by callers who are
\* not the owner end with one and the same AuthorizationError, whatever the
\* amounts of the goal and of the call, and a call that ends with
\* "Contribution would exceed target amount" was made by the owner of the
\* goal it read
C29_NonOwnerLearnsNothing ==
  /\ \A c, d \in Calls :
       (EndedForNonOwner(c) /\ EndedForNonOwner(d))
       => /\ call[c].result.kind = "AuthorizationError"
          /\ call[c].result = call[d].result
  /\ \A c \in Calls :
       (IsContribution(c) /\ call[c].result = ExceedError)
       => (call[c].goal # Null /\ call[c].goal.userId = call[c].args.userId)

\* A call by a caller who is not the owner ended, made with an amount that
\* the owner would have seen rejected as exceeding the target
C29_Witness ==
  \E d \in Calls :
    /\ EndedForNonOwner(d)
    /\ call[d].goal.currentAmount # Zero
    /\ Overflows(call[d].goal, call[d].goal.userId, call[d].args.amount)

\* Calls of update and delete on the three services
Lookups == {r \in Requests : request[r].op \in {"update", "delete"}}

\* Call r was made with an id the repository of its service has never held
NeverHeld(r) == request[r].args.id \notin IssuedRecordIds(request[r].svc)

\* Call r ended with NotFoundError and no repository update or delete call
EndedNotFound(record) ==
  /\ record.pc = "done"
  /\ record.result = Thrown("NotFoundError", NotFoundMessage[record.svc])
  /\ record.updates = 0
  /\ record.deletes = 0
  /\ record.creates = 0

\* C27 (as amended): in the Budgets, Transactions and Users services, a call
\* of update(id, data) or delete(id) with a well-formed id and, for update,
\* valid data, whose lookup finds no record, fails with NotFoundError after
\* that one lookup, issues no repository update or delete call and leaves
\* the repository contents as they are; a call with a malformed id or
\* invalid data fails with ValidationError before any repository call.
C27_MissingRecordNotFound ==
  [][\A r \in Requests :
       /\ (/\ request[r].pc = "await"
           /\ request[r].read = Null
           /\ request'[r] # request[r])
          => /\ EndedNotFound(request'[r])
             /\ request'[r].finds = 1
             /\ repo' = repo
       /\ (/\ request[r].pc = "idle"
           /\ request'[r].op \in {"update", "delete"}
           /\ request'[r].pc = "done")
          => /\ request'[r].result.kind = "ValidationError"
             /\ request'[r].finds = 0
             /\ request'[r].updates = 0
             /\ request'[r].deletes = 0
             /\ repo' = repo]_vars

\* An update and a delete, of different services, each with a well-formed
\* id its repository holds no record of, have ended with NotFoundError
C27_Witness ==
  \E r, q \in Lookups :
    /\ request[r].op = "update" /\ request[q].op = "delete"
    /\ request[r].svc # request[q].svc
    /\ \A x \in {r, q} : /\ request[x].read = Null
                         /\ request[x].finds = 1
                         /\ EndedNotFound(request[x])

\* C27 (as worded): every call of update or delete on an id the repository
\* holds no record of fails with NotFoundError and issues no repository
\* update or delete call
C27_AnyMissingIdNotFound ==
  \A r \in Lookups :
    (request[r].pc = "done" /\ NeverHeld(r)) => EndedNotFound(request[r])

\* C30: after any sequence of successful BudgetsService.create and
\* BudgetsService.update calls, every stored budget has startDate <= endDate
C30_StoredDatesOrdered ==
  \A i \in 1..Len(repo.budgets) :
    repo.budgets[i].startDate.time <= repo.budgets[i].endDate.time

====
